---- MODULE Spec2Model ----
(***************************************************************************)
(* Model of the App component of src/index.tsx: the per-category input and *)
(* attachment store, the attachment encoder (fileToGenerativePart), the    *)
(* request assembly and submission lifecycle (runAnalysis), the sidebar     *)
(* search filter and the view state the handlers touch.                    *)
(*                                                                         *)
(* Strings built by template literals are modelled as sequences of their   *)
(* fragments (literal pieces and interpolated values, in order), so that   *)
(* two prompts are equal exactly when the same fragments were concatenated.*)
(* The Urdu literals of the source are written as ASCII stand-ins that     *)
(* start with "ur:" (the module text is ASCII only).                       *)
(***************************************************************************)
EXTENDS Naturals, Sequences, FiniteSets

\* ------------------------------------------------------------------ bounds

\* At most this many attachments are held in the AttachmentsMap at once.
MaxAttachments == 2
\* At most this many object URLs are ever created (URL.createObjectURL).
MaxObjectUrls == 2
\* At most this many runAnalysis invocations are suspended at the same time.
MaxPending == 2

\* The field card starts with this many attachments where removal is studied.
MaxListLen == 3

\* ------------------------------------------------------- types & constants

Language == {"en", "ur"}
Tab == {"inputs", "results", "heatmap"}

\* The keys of DataInputs / AttachmentsMap in property order.
CategoryOrder == <<"field", "handSpecimen", "microscopy", "geochemistry", "remoteSensing">>
Category == {CategoryOrder[i] : i \in 1..Len(CategoryOrder)}

INITIAL_INPUTS == [c \in Category |-> ""]
INITIAL_ATTACHMENTS == [c \in Category |-> <<>>]

\* The entries of LABELS the handlers read.
LABELS ==
  [en |-> [field |-> "Field & Outcrop",
           handSpecimen |-> "Hand Specimen",
           microscopy |-> "Microscopy (Thin Section)",
           geochem |-> "Geochemistry",
           remote |-> "Satellite / Remote Sensing",
           module1 |-> "1. Geological Context",
           module2 |-> "2. Structural Intelligence",
           module3 |-> "3. Ore Petrography",
           module4 |-> "4. Geochemical Intelligence",
           module5 |-> "5. Spectral AI",
           module6 |-> "6. Heat-Map Fusion",
           heatmap |-> "Heat Map Logic",
           results |-> "Analysis Results"],
   ur |-> [field |-> "ur:Field & Outcrop",
           handSpecimen |-> "ur:Hand Specimen",
           microscopy |-> "ur:Microscopy (Thin Section)",
           geochem |-> "ur:Geochemistry",
           remote |-> "ur:Satellite / Remote Sensing",
           module1 |-> "ur:1. Geological Context",
           module2 |-> "ur:2. Structural Intelligence",
           module3 |-> "3. Ore Petrography",
           module4 |-> "ur:4. Geochemical Intelligence",
           module5 |-> "5. Spectral AI",
           module6 |-> "6. Heat-Map Fusion",
           heatmap |-> "ur:Heat Map Logic",
           results |-> "ur:Analysis Results"]]

systemInstructionEn == "systemInstructionEn"
systemInstructionUr == "systemInstructionUr"

\* The value of an omitted argument / a missing property.
Undefined == "<undefined>"
\* JavaScript truthiness of a string-or-undefined value.
Truthy(s) == s # Undefined /\ s # ""

\* ------------------------------------------------------------------ files

\* A File: its name as the sequence of its dot-separated components, its
\* declared mime type as <<major, minor>> (<<>> for the empty string), and
\* its content.
Png == [name |-> <<"core", "png">>, type |-> <<"image", "png">>, content |-> "PNGBYTES"]
Csv == [name |-> <<"assay", "csv">>, type |-> <<"text", "csv">>, content |-> "Cu,Au"]
Pdf == [name |-> <<"report", "pdf">>, type |-> <<"application", "pdf">>, content |-> "PDFBYTES"]
\* Files for which the browser reports no mime type.
Txt == [name |-> <<"notes", "txt">>, type |-> <<>>, content |-> "vein at 12 m"]
Md == [name |-> <<"log", "md">>, type |-> <<>>, content |-> "# log"]

\* file.type.startsWith(prefix + "/")
TypeStartsWith(file, major) == Len(file.type) > 0 /\ file.type[1] = major
\* file.name.endsWith("." + ext)
NameEndsWith(file, ext) == Len(file.name) >= 2 /\ file.name[Len(file.name)] = ext

\* FileReader.readAsText: the decoded content.
ReadAsText(file) == file.content
\* FileReader.readAsDataURL: "data:<type>;base64,<data>", kept as the two
\* pieces String.split(',') separates; a file without mime type is given
\* application/octet-stream in the header.
ReadAsDataURL(file) ==
  LET mediaType == IF file.type = <<>> THEN <<"application", "octet-stream">> ELSE file.type
  IN << <<"data:", mediaType, ";base64">>, <<"base64", file.content>> >>

fileToGenerativePart(file) ==
  IF TypeStartsWith(file, "text") \/ NameEndsWith(file, "csv")
       \/ NameEndsWith(file, "json") \/ NameEndsWith(file, "md")
  THEN [text |-> <<"\n[File Attachment: ">> \o file.name \o <<"]\n", ReadAsText(file), "\n">>]
  ELSE [inlineData |-> [data |-> ReadAsDataURL(file)[2], mimeType |-> file.type]]

\* ------------------------------------------------------------- the prompt

\* Variant of OrNA: an empty text is kept.
OrNAKeepsEmpty(s) == s

\* text || "N/A"
OrNA(s) == IF s = "" THEN "N/A" ELSE s

inputSummary(lang, inp) ==
  <<"\n--- INPUT DATA ---\n",
    LABELS[lang].field, ": ", OrNA(inp.field), "\n",
    LABELS[lang].handSpecimen, ": ", OrNA(inp.handSpecimen), "\n",
    LABELS[lang].microscopy, ": ", OrNA(inp.microscopy), "\n",
    LABELS[lang].geochem, ": ", OrNA(inp.geochemistry), "\n",
    LABELS[lang].remote, ": ", OrNA(inp.remoteSensing), "\n">>

ModulePrompt(specificModule, lang, inp) ==
  <<"Run specific module analysis: ", specificModule, ".\n">> \o inputSummary(lang, inp)

HeatmapPrompt(inp) ==
  <<"Generate a comprehensive Python script ... to create a geochemical heat map. ... inferred from: ",
    inp.field, " ", inp.geochemistry,
    " ... Output ONLY the Python code and the instructions.">>

FullPrompt(lang, inp) ==
  <<"Perform a full Economic Geology Analysis based on the provided multi-scale data.\n">>
    \o inputSummary(lang, inp)

mainPromptText(specificModule, tab, lang, inp) ==
  IF Truthy(specificModule) THEN ModulePrompt(specificModule, lang, inp)
  ELSE IF tab = "heatmap" /\ specificModule = "Generate Python Code" THEN HeatmapPrompt(inp)
  ELSE FullPrompt(lang, inp)

\* Variant of FlatFrom: the lists of the keys taken last key first.
RECURSIVE FlatFromLastKeyFirst(_, _)
FlatFromLastKeyFirst(atts, i) ==
  IF i > Len(CategoryOrder) THEN <<>>
  ELSE FlatFromLastKeyFirst(atts, i + 1) \o atts[CategoryOrder[i]]

\* Object.values(attachments).flat(): the lists of the keys in property order.
RECURSIVE FlatFrom(_, _)
FlatFrom(atts, i) ==
  IF i > Len(CategoryOrder) THEN <<>>
  ELSE atts[CategoryOrder[i]] \o FlatFrom(atts, i + 1)

allAttachments(atts) == FlatFrom(atts, 1)

systemInstruction(lang) == IF lang = "en" THEN systemInstructionEn ELSE systemInstructionUr

\* The message of the catch block.
ErrorMessage(lang) ==
  IF lang = "en" THEN "Error generating analysis. Please check console."
  ELSE "ur:Error generating analysis. Please check console."

\* Variant of ResponseText: the text is used as it comes.
ResponseTextNoFallback(text) == text

\* response.text || "No analysis generated."
ResponseText(text) == IF Truthy(text) THEN text ELSE "No analysis generated."

\* ------------------------------------------------------------------ state

VARIABLES
  apiKey,       \* whether process.env.API_KEY is set (fixed by the build)
  language,     \* useState<Language>
  inputs,       \* useState<DataInputs>
  attachments,  \* useState<AttachmentsMap>
  loading,      \* useState(false)
  result,       \* useState<string>("")
  activeTab,    \* useState('inputs')
  objectUrls,   \* the object URLs created and not revoked (the blob URL store)
  alerted,      \* whether alert("API Key missing") has been shown
  consoleError, \* the error last passed to console.error, if any
  calls,        \* the runAnalysis invocations suspended at an await
  searchQuery   \* useState(""), the text of the sidebar search box

vars == <<apiKey, language, inputs, attachments, loading, result, activeTab,
          objectUrls, alerted, consoleError, calls, searchQuery>>

\* previewUrl of an attachment that has none.
NoUrl == 0

Init ==
  /\ apiKey \in BOOLEAN
  /\ language = "en"
  /\ inputs = INITIAL_INPUTS
  /\ attachments = INITIAL_ATTACHMENTS
  /\ loading = FALSE
  /\ result = ""
  /\ activeTab = "inputs"
  /\ objectUrls = {}
  /\ alerted = FALSE
  /\ consoleError = "none"
  /\ calls = <<>>
  /\ searchQuery = <<>>

\* ------------------------------------------------------------- InputStore

\* String.prototype.trim on the texts used.
Trim(s) == IF s = " quartz \n" THEN "quartz" ELSE s

\* Variant of handleInputChange: the value is trimmed before it is stored.
handleInputChangeTrimmed(field, value) ==
  /\ inputs' = [inputs EXCEPT ![field] = Trim(value)]
  /\ UNCHANGED <<apiKey, searchQuery, language, attachments, loading, result, activeTab,
                 objectUrls, alerted, consoleError, calls>>

handleInputChange(field, value) ==
  /\ inputs' = [inputs EXCEPT ![field] = value]
  /\ UNCHANGED <<apiKey, searchQuery, language, attachments, loading, result, activeTab,
                 objectUrls, alerted, consoleError, calls>>

IsImage(file) == TypeStartsWith(file, "image")

ImagesIn(files) == {k \in 1..Len(files) : IsImage(files[k])}

\* URL.createObjectURL for the k-th file of a list: a URL not in the store
\* and not given to an earlier file of the list.
FreshUrl(files, k) ==
  Cardinality(objectUrls) + Cardinality({j \in ImagesIn(files) : j <= k})

AttachmentType(file) ==
  IF IsImage(file) THEN "image"
  ELSE IF file.type = <<"application", "pdf">> THEN "pdf" ELSE "text"

newAttachments(files, ids) ==
  [k \in 1..Len(files) |->
     [id |-> ids[k],
      file |-> files[k],
      previewUrl |-> IF IsImage(files[k]) THEN FreshUrl(files, k) ELSE NoUrl,
      type |-> AttachmentType(files[k])]]

TotalAttachments == Len(allAttachments(attachments))

handleAddAttachment(field, files, ids) ==
  /\ TotalAttachments + Len(files) <= MaxAttachments
  /\ Cardinality(objectUrls) + Cardinality(ImagesIn(files)) <= MaxObjectUrls
  /\ attachments' = [attachments EXCEPT ![field] = @ \o newAttachments(files, ids)]
  /\ objectUrls' = objectUrls \cup {FreshUrl(files, k) : k \in ImagesIn(files)}
  /\ UNCHANGED <<apiKey, searchQuery, language, inputs, loading, result, activeTab, alerted, consoleError, calls>>

\* Variant of handleRemoveAttachment: the last attachment of the list is
\* dropped, whatever its id.
handleRemoveAttachmentLast(field, id) ==
  /\ attachments' = [attachments EXCEPT ![field] = SubSeq(@, 1, Len(@) - 1)]
  /\ UNCHANGED <<apiKey, searchQuery, language, inputs, loading, result, activeTab,
                 objectUrls, alerted, consoleError, calls>>

handleRemoveAttachment(field, id) ==
  /\ LET Keep(att) == att.id # id
     IN attachments' = [attachments EXCEPT ![field] = SelectSeq(@, Keep)]
  /\ UNCHANGED <<apiKey, searchQuery, language, inputs, loading, result, activeTab,
                 objectUrls, alerted, consoleError, calls>>

\* Variant of clearInputs: the attachments are kept.
clearInputsTextOnly ==
  /\ inputs' = INITIAL_INPUTS
  /\ result' = ""
  /\ UNCHANGED <<apiKey, searchQuery, language, attachments, loading, activeTab,
                 objectUrls, alerted, consoleError, calls>>

\* Variant of clearInputs: the held result is kept.
clearInputsKeepsResult ==
  /\ inputs' = INITIAL_INPUTS
  /\ attachments' = INITIAL_ATTACHMENTS
  /\ UNCHANGED <<apiKey, searchQuery, language, loading, result, activeTab, objectUrls,
                 alerted, consoleError, calls>>

clearInputs ==
  /\ inputs' = INITIAL_INPUTS
  /\ attachments' = INITIAL_ATTACHMENTS
  /\ result' = ""
  /\ UNCHANGED <<apiKey, searchQuery, language, loading, activeTab, objectUrls, alerted, consoleError, calls>>

\* ------------------------------------------------------------ runAnalysis

\* The invocation from its call to its first await: the values its closure
\* holds (language, activeTab, inputs, attachments of the render that created the
\* handler) and the part list, which starts with the prompt.
NewCall(specificModule) ==
  [specificModule |-> specificModule,
   language |-> language,
   activeTab |-> activeTab,
   inputs |-> inputs,
   attachments |-> attachments,
   parts |-> <<[text |-> mainPromptText(specificModule, activeTab, language, inputs)]>>,
   pc |-> IF allAttachments(attachments) = <<>> THEN "generateContent" ELSE "read"]

\* Variant of runAnalysis: the API key is not checked.
runAnalysisNoKeyCheck(specificModule) ==
  /\ Len(calls) < MaxPending
  /\ loading' = TRUE
  /\ activeTab' = "results"
  /\ result' = ""
  /\ calls' = Append(calls, NewCall(specificModule))
  /\ UNCHANGED <<apiKey, searchQuery, language, inputs, attachments, objectUrls, alerted, consoleError>>

\* Variant of runAnalysis: the active tab is left as it is.
runAnalysisKeepsTab(specificModule) ==
  IF ~apiKey
  THEN /\ alerted' = TRUE
       /\ UNCHANGED <<apiKey, searchQuery, language, inputs, attachments, loading, result,
                      activeTab, objectUrls, consoleError, calls>>
  ELSE /\ Len(calls) < MaxPending
       /\ loading' = TRUE
       /\ result' = ""
       /\ calls' = Append(calls, NewCall(specificModule))
       /\ UNCHANGED <<apiKey, searchQuery, language, inputs, attachments, activeTab, objectUrls,
                      alerted, consoleError>>

runAnalysis(specificModule) ==
  IF ~apiKey
  THEN /\ alerted' = TRUE
       /\ UNCHANGED <<apiKey, searchQuery, language, inputs, attachments, loading, result,
                      activeTab, objectUrls, consoleError, calls>>
  ELSE /\ Len(calls) < MaxPending
       /\ loading' = TRUE
       /\ activeTab' = "results"
       /\ result' = ""
       /\ calls' = Append(calls, NewCall(specificModule))
       /\ UNCHANGED <<apiKey, searchQuery, language, inputs, attachments, objectUrls, alerted, consoleError>>

RemoveAt(seq, i) == SubSeq(seq, 1, i - 1) \o SubSeq(seq, i + 1, Len(seq))

\* The attachment whose read call i awaits: the loop runs over the list
\* flattened from the closure's attachments, one part pushed per attachment.
AwaitedAttachment(i) == allAttachments(calls[i].attachments)[Len(calls[i].parts)]

\* Variant of ReadDone: the prompt is rebuilt from the inputs of the current
\* render when a part is pushed.
ReadDoneLiveInputs(i) ==
  /\ i \in 1..Len(calls)
  /\ calls[i].pc = "read"
  /\ LET c == calls[i]
         prompt == [text |-> mainPromptText(c.specificModule, c.activeTab, language, inputs)]
         parts == Append([c.parts EXCEPT ![1] = prompt],
                         fileToGenerativePart(AwaitedAttachment(i).file))
     IN calls' = [calls EXCEPT ![i] =
                    [c EXCEPT !.parts = parts,
                              !.pc = IF Len(parts) = 1 + Len(allAttachments(c.attachments))
                                     THEN "generateContent" ELSE "read"]]
  /\ UNCHANGED <<apiKey, searchQuery, language, inputs, attachments, loading, result,
                 activeTab, objectUrls, alerted, consoleError>>

\* reader.onloadend after a successful read: the part is pushed; after the
\* last attachment the request is handed to ai.models.generateContent.
ReadDone(i) ==
  /\ i \in 1..Len(calls)
  /\ calls[i].pc = "read"
  /\ LET c == calls[i]
         parts == Append(c.parts, fileToGenerativePart(AwaitedAttachment(i).file))
     IN calls' = [calls EXCEPT ![i] =
                    [c EXCEPT !.parts = parts,
                              !.pc = IF Len(parts) = 1 + Len(allAttachments(c.attachments))
                                     THEN "generateContent" ELSE "read"]]
  /\ UNCHANGED <<apiKey, searchQuery, language, inputs, attachments, loading, result,
                 activeTab, objectUrls, alerted, consoleError>>

\* Variant of CatchFinally: without the finally block.
CatchFinallyKeepsLoading(i, error) ==
  /\ consoleError' = error
  /\ result' = ErrorMessage(calls[i].language)
  /\ calls' = RemoveAt(calls, i)
  /\ UNCHANGED <<apiKey, searchQuery, language, inputs, attachments, loading, activeTab,
                 objectUrls, alerted>>

\* catch and finally of call i, entered with `error`.
CatchFinally(i, error) ==
  /\ consoleError' = error
  /\ result' = ErrorMessage(calls[i].language)
  /\ loading' = FALSE
  /\ calls' = RemoveAt(calls, i)
  /\ UNCHANGED <<apiKey, searchQuery, language, inputs, attachments, activeTab, objectUrls, alerted>>

\* Variant of ReadFail: the file that cannot be read is skipped and the
\* request is sent with the parts read so far.
ReadFailSkipsFile(i) ==
  /\ i \in 1..Len(calls)
  /\ calls[i].pc = "read"
  /\ calls' = [calls EXCEPT ![i].pc = "generateContent"]
  /\ UNCHANGED <<apiKey, searchQuery, language, inputs, attachments, loading, result,
                 activeTab, objectUrls, alerted, consoleError>>

\* reader.onerror: the awaited promise rejects with the reader's error event.
ReadFail(i) ==
  /\ i \in 1..Len(calls)
  /\ calls[i].pc = "read"
  /\ CatchFinally(i, "ProgressEvent")

\* Variant of GenerateReturn: the response of a call that is not the one
\* started last is dropped.
GenerateReturnDropsStale(i, text) ==
  /\ i \in 1..Len(calls)
  /\ calls[i].pc = "generateContent"
  /\ result' = IF i = Len(calls) THEN ResponseText(text) ELSE result
  /\ loading' = FALSE
  /\ calls' = RemoveAt(calls, i)
  /\ UNCHANGED <<apiKey, searchQuery, language, inputs, attachments, activeTab, objectUrls,
                 alerted, consoleError>>

\* generateContent resolves with a response whose text is `text`.
GenerateReturn(i, text) ==
  /\ i \in 1..Len(calls)
  /\ calls[i].pc = "generateContent"
  /\ result' = ResponseText(text)
  /\ loading' = FALSE
  /\ calls' = RemoveAt(calls, i)
  /\ UNCHANGED <<apiKey, searchQuery, language, inputs, attachments, activeTab, objectUrls, alerted, consoleError>>

\* generateContent rejects.
GenerateFail(i) ==
  /\ i \in 1..Len(calls)
  /\ calls[i].pc = "generateContent"
  /\ CatchFinally(i, "ApiError")

\* The request call i has handed to generateContent.
Request(i) ==
  [model |-> "gemini-3-pro-preview",
   contents |-> [role |-> "user", parts |-> calls[i].parts],
   config |-> [systemInstruction |-> systemInstruction(calls[i].language),
               temperature |-> "0.4"]]

\* The calls whose backend request is in flight.
InFlight == {i \in 1..Len(calls) : calls[i].pc = "generateContent"}

\* ---------------------------------------------------------------- the view

setActiveTab(tab) ==
  /\ activeTab' = tab
  /\ UNCHANGED <<apiKey, searchQuery, language, inputs, attachments, loading, result,
                 objectUrls, alerted, consoleError, calls>>

ToggleLanguage ==
  /\ language' = IF language = "en" THEN "ur" ELSE "en"
  /\ UNCHANGED <<apiKey, searchQuery, inputs, attachments, loading, result, activeTab,
                 objectUrls, alerted, consoleError, calls>>

\* The search box's onChange (the value typed) and its clear button (the
\* empty string).
setSearchQuery(q) ==
  /\ searchQuery' = q
  /\ UNCHANGED <<apiKey, language, inputs, attachments, loading, result, activeTab,
                 objectUrls, alerted, consoleError, calls>>

\* ------------------------------------------------------- the search filter

\* A string the filter reads or the user types is the sequence of its
\* characters.

\* The characters of the display labels the filter reads; a character
\* outside ASCII is written as its code point.
Chars(s) ==
  CASE s = "1. Geological Context" ->
       <<"1", ".", " ", "G", "e", "o", "l", "o", "g", "i", "c", "a", "l", " ",
         "C", "o", "n", "t", "e", "x", "t">>
    [] s = "ur:1. Geological Context" ->
       <<"1", ".", " ", "U+0627", "U+0631", "U+0636", "U+06CC", "U+0627",
         "U+062A", "U+06CC", " ", "U+0633", "U+06CC", "U+0627", "U+0642",
         " ", "U+0648", " ", "U+0633", "U+0628", "U+0627", "U+0642">>
    [] s = "2. Structural Intelligence" ->
       <<"2", ".", " ", "S", "t", "r", "u", "c", "t", "u", "r", "a", "l", " ",
         "I", "n", "t", "e", "l", "l", "i", "g", "e", "n", "c", "e">>
    [] s = "ur:2. Structural Intelligence" ->
       <<"2", ".", " ", "U+0633", "U+0627", "U+062E", "U+062A", "U+06CC", " ",
         "U+0630", "U+06C1", "U+0627", "U+0646", "U+062A">>
    [] s = "3. Ore Petrography" ->
       <<"3", ".", " ", "O", "r", "e", " ", "P", "e", "t", "r", "o", "g", "r",
         "a", "p", "h", "y">>
    [] s = "4. Geochemical Intelligence" ->
       <<"4", ".", " ", "G", "e", "o", "c", "h", "e", "m", "i", "c", "a", "l",
         " ", "I", "n", "t", "e", "l", "l", "i", "g", "e", "n", "c", "e">>
    [] s = "ur:4. Geochemical Intelligence" ->
       <<"4", ".", " ", "U+062C", "U+06CC", "U+0648", " ", "U+06A9", "U+06CC",
         "U+0645", "U+06CC", "U+06A9", "U+0644", " ", "U+0630", "U+06C1",
         "U+0627", "U+0646", "U+062A">>
    [] s = "5. Spectral AI" ->
       <<"5", ".", " ", "S", "p", "e", "c", "t", "r", "a", "l", " ", "A", "I">>
    [] s = "6. Heat-Map Fusion" ->
       <<"6", ".", " ", "H", "e", "a", "t", "-", "M", "a", "p", " ", "F", "u",
         "s", "i", "o", "n">>
    [] s = "Heat Map Logic" ->
       <<"H", "e", "a", "t", " ", "M", "a", "p", " ", "L", "o", "g", "i", "c">>
    [] s = "ur:Heat Map Logic" ->
       <<"U+06C1", "U+06CC", "U+0679", " ", "U+0645", "U+06CC", "U+067E", " ",
         "U+0644", "U+0627", "U+062C", "U+06A9">>
    [] s = "Analysis Results" ->
       <<"A", "n", "a", "l", "y", "s", "i", "s", " ", "R", "e", "s", "u", "l",
         "t", "s">>
    [] s = "ur:Analysis Results" ->
       <<"U+062A", "U+062C", "U+0632", "U+06CC", "U+0627", "U+062A", "U+06CC",
         " ", "U+0646", "U+062A", "U+0627", "U+0626", "U+062C">>
    [] s = "Multi-Scale Data" ->
       <<"M", "u", "l", "t", "i", "-", "S", "c", "a", "l", "e", " ", "D", "a",
         "t", "a">>
    [] s = "ur:Multi-Scale Data" ->
       <<"U+0688", "U+06CC", "U+0679", "U+0627", " ", "U+0627", "U+0646", " ",
         "U+067E", "U+0679">>

UpperCase ==
  <<"A", "B", "C", "D", "E", "F", "G", "H", "I", "J", "K", "L", "M",
    "N", "O", "P", "Q", "R", "S", "T", "U", "V", "W", "X", "Y", "Z">>
LowerCase ==
  <<"a", "b", "c", "d", "e", "f", "g", "h", "i", "j", "k", "l", "m",
    "n", "o", "p", "q", "r", "s", "t", "u", "v", "w", "x", "y", "z">>

\* The small letter of each capital letter.
SmallOf ==
  [ch \in {UpperCase[n] : n \in 1..Len(UpperCase)} |->
     LowerCase[CHOOSE n \in 1..Len(UpperCase) : UpperCase[n] = ch]]

\* Variant of toLowerCase: the string is returned as it is.
toLowerCaseKeepsCase(str) == str

\* String.prototype.toLowerCase: a capital letter becomes its small letter,
\* every other character of the strings used (digits, punctuation, Arabic
\* letters) stays.
toLowerCase(str) ==
  [k \in 1..Len(str) |-> IF str[k] \in DOMAIN SmallOf THEN SmallOf[str[k]] ELSE str[k]]

\* String.prototype.includes: the empty string is found in every string, any
\* other at one of the positions where it fits.
includes(str, q) ==
  \/ Len(q) = 0
  \/ \E start \in 0..(Len(str) - Len(q)) : \A k \in 1..Len(q) : str[start + k] = q[k]

dataInputLabel == IF language = "en" THEN "Multi-Scale Data" ELSE "ur:Multi-Scale Data"

showDataInput == includes(toLowerCase(Chars(dataInputLabel)), toLowerCase(searchQuery))

moduleList ==
  <<[label |-> LABELS[language].module1], [label |-> LABELS[language].module2],
    [label |-> LABELS[language].module3], [label |-> LABELS[language].module4],
    [label |-> LABELS[language].module5], [label |-> LABELS[language].module6]>>

filteredModules ==
  LET Test(m) == includes(toLowerCase(Chars(m.label)), toLowerCase(searchQuery))
  IN SelectSeq(moduleList, Test)

toolList ==
  <<[label |-> LABELS[language].heatmap, tab |-> "heatmap"],
    [label |-> LABELS[language].results, tab |-> "results"]>>

filteredTools ==
  LET Test(tool) == includes(toLowerCase(Chars(tool.label)), toLowerCase(searchQuery))
  IN SelectSeq(toolList, Test)

hasAnyMatch == showDataInput \/ Len(filteredModules) > 0 \/ Len(filteredTools) > 0

\* ------------------------------------------------------------ the controls

\* Each control is enabled when it is rendered and not disabled; the values
\* the user supplies come from the sets given.

\* Math.random().toString(36).substr(2, 9) draws each id from a finite set
\* of strings; two draws may coincide.
Ids == {"k1", "k2"}
Texts == {"", "quartz veining"}
\* Texts that also start and end with white space.
PaddedTexts == Texts \cup {" quartz \n"}
ModuleKeys == {"module1", "module3"}
\* response.text of a returned response.
ResponseTexts == {Undefined, "", "Porphyry Cu, 80%"}

ChangeText(cats, texts) ==
  activeTab = "inputs" /\ \E c \in cats, v \in texts : handleInputChange(c, v)

PickFiles(cats, lists, idSet) ==
  /\ activeTab = "inputs"
  /\ \E c \in cats, files \in lists :
       \E ids \in [1..Len(files) -> idSet] : handleAddAttachment(c, files, ids)

ClickRemove ==
  /\ activeTab = "inputs"
  /\ \E c \in Category : \E k \in 1..Len(attachments[c]) :
       handleRemoveAttachment(c, attachments[c][k].id)

ClickClear == activeTab = "inputs" /\ clearInputs

ClickRunFullAnalysis == activeTab = "inputs" /\ ~loading /\ runAnalysis(Undefined)

\* A module button is rendered for each entry of filteredModules.
ShownModules == {filteredModules[k].label : k \in 1..Len(filteredModules)}

ClickSidebarModule(keys) ==
  \E key \in keys :
    LABELS[language][key] \in ShownModules /\ runAnalysis(LABELS[language][key])

ClickGeneratePythonScript == activeTab = "heatmap" /\ runAnalysis("Generate Python Code")

\* The sidebar has the data-input button when showDataInput and a button for
\* each entry of filteredTools; the empty results view has 'Go to Inputs'.
ShownTabs ==
  {tab \in Tab :
     \/ tab = "inputs" /\ showDataInput
     \/ tab = "inputs" /\ activeTab = "results" /\ ~loading /\ result = ""
     \/ \E k \in 1..Len(filteredTools) : filteredTools[k].tab = tab}

ClickTab(tabs) == \E tab \in tabs \cap ShownTabs : setActiveTab(tab)

TypeSearch(queries) == \E q \in queries : setSearchQuery(q)

\* The events that resume a suspended call.
FileLoads == \E i \in 1..Len(calls) : ReadDone(i)

FileFails == \E i \in 1..Len(calls) : ReadFail(i)

BackendReturns(texts) == \E i \in 1..Len(calls), text \in texts : GenerateReturn(i, text)

BackendFails == \E i \in 1..Len(calls) : GenerateFail(i)

\* --------------------------------------------------------- specifications

\* A session in which the user starts an analysis, by any of the three
\* controls, only while none is running, types in the geochemistry card and
\* attaches CSV files to it.
Next ==
  \/ ChangeText({"geochemistry"}, Texts)
  \/ PickFiles({"geochemistry"}, {<<Csv>>}, Ids)
  \/ ClickRemove
  \/ ClickClear
  \/ ClickRunFullAnalysis
  \/ ~loading /\ ClickSidebarModule({"module1"})
  \/ ~loading /\ ClickGeneratePythonScript
  \/ ClickTab(Tab)
  \/ ToggleLanguage
  \/ FileLoads
  \/ FileFails
  \/ BackendReturns(ResponseTexts)
  \/ BackendFails

Spec == Init /\ [][Next]_vars

\* A session in which the user clicks the analysis controls at any time and
\* leaves the input cards alone.
NextOverlap ==
  \/ ClickRunFullAnalysis
  \/ ClickSidebarModule(ModuleKeys)
  \/ ClickGeneratePythonScript
  \/ ClickTab(Tab)
  \/ ToggleLanguage
  \/ BackendReturns(ResponseTexts)
  \/ BackendFails

SpecOverlap == Init /\ [][NextOverlap]_vars

\* A session in which the user attaches PDF and CSV files to two cards,
\* removes them, and runs the full analysis; every read succeeds and the
\* backend answers with a text.
NextOrder ==
  \/ PickFiles({"field", "geochemistry"}, {<<Pdf>>, <<Csv>>, <<Pdf, Csv>>}, Ids)
  \/ ClickRemove
  \/ ClickClear
  \/ ClickRunFullAnalysis
  \/ ClickTab({"inputs"})
  \/ FileLoads
  \/ BackendReturns({"Porphyry Cu, 80%"})

SpecOrder == Init /\ [][NextOrder]_vars

\* A session in which the user only edits the input cards: text in two of
\* them, images and CSV files in any of the five.
NextStore ==
  \/ ChangeText({"field", "remoteSensing"}, PaddedTexts)
  \/ PickFiles(Category, {<<Png>>, <<Csv>>, <<Png, Csv>>}, Ids)
  \/ ClickRemove
  \/ ClickClear

SpecStore == Init /\ [][NextStore]_vars

\* A session in which the user edits the field card (text and one CSV file
\* at a time), uses the search box and starts analyses at any time, also
\* while one is running.
NextFrame ==
  \/ ChangeText({"field"}, Texts)
  \/ attachments.field = <<>> /\ PickFiles({"field"}, {<<Csv>>}, {"k1"})
  \/ ClickRemove
  \/ ClickClear
  \/ TypeSearch({<<>>, <<"O", "r", "E">>})
  \/ ClickRunFullAnalysis
  \/ ClickSidebarModule({"module1"})
  \/ ClickTab({"inputs"})
  \/ FileLoads
  \/ FileFails
  \/ BackendReturns({"Porphyry Cu, 80%"})
  \/ BackendFails

SpecFrame == Init /\ [][NextFrame]_vars

\* A session in which the user attaches one CSV file at a time to the
\* geochemistry card and starts analyses at any time; every pending read and
\* every pending backend call eventually returns or fails.
NextLive ==
  \/ attachments.geochemistry = <<>> /\ PickFiles({"geochemistry"}, {<<Csv>>}, {"k1"})
  \/ ClickClear
  \/ ClickRunFullAnalysis
  \/ ClickSidebarModule({"module1"})
  \/ ClickTab({"inputs"})
  \/ FileLoads
  \/ FileFails
  \/ BackendReturns({"Porphyry Cu, 80%"})
  \/ BackendFails

SpecLive ==
  /\ Init
  /\ [][NextLive]_vars
  /\ WF_vars(FileLoads \/ FileFails)
  /\ WF_vars(BackendReturns({"Porphyry Cu, 80%"}) \/ BackendFails)

\* The ids of the attachments where removal is studied.
IdPool == Ids \cup {"k3", "k4"}

\* A stored attachment of a file that has no preview.
Stored(id, file) ==
  [id |-> id, file |-> file, previewUrl |-> NoUrl, type |-> AttachmentType(file)]

\* The state after the user has attached MaxListLen PDF and CSV files to the
\* field card and one CSV file to the geochemistry card.
InitRemove ==
  /\ apiKey \in BOOLEAN
  /\ language = "en"
  /\ inputs = INITIAL_INPUTS
  /\ \E ids \in [1..MaxListLen -> IdPool], files \in [1..MaxListLen -> {Pdf, Csv}],
        g \in IdPool :
       attachments =
         [INITIAL_ATTACHMENTS EXCEPT
            !.field = [k \in 1..MaxListLen |-> Stored(ids[k], files[k])],
            !.geochemistry = <<Stored(g, Csv)>>]
  /\ loading = FALSE
  /\ result = ""
  /\ activeTab = "inputs"
  /\ objectUrls = {}
  /\ alerted = FALSE
  /\ consoleError = "none"
  /\ calls = <<>>
  /\ searchQuery = <<>>

\* The remove button of an attachment, clicked once or, before the list is
\* rendered again, a second time (the id is then no longer in the list).
NextRemove ==
  \E c \in {"field", "geochemistry", "microscopy"}, id \in IdPool :
    handleRemoveAttachment(c, id)

SpecRemove == InitRemove /\ [][NextRemove]_vars

\* A session in which the user types in the field and microscopy cards,
\* attaches CSV files to the hand specimen and remote sensing cards,
\* switches the language and runs the full analysis while none is running.
NextPrompt ==
  \/ ChangeText({"field", "microscopy"}, Texts)
  \/ PickFiles({"handSpecimen", "remoteSensing"}, {<<Csv>>}, Ids)
  \/ ClickRemove
  \/ ClickRunFullAnalysis
  \/ ClickTab({"inputs"})
  \/ ToggleLanguage
  \/ FileLoads
  \/ BackendReturns({"Porphyry Cu, 80%"})

SpecPrompt == Init /\ [][NextPrompt]_vars

\* A session in which the user attaches one file at a time to the field
\* card, an image, a PDF, a CSV file or a .txt or .md file without mime type,
\* and runs the full analysis while none is running.
NextEncode ==
  \/ attachments.field = <<>>
       /\ PickFiles({"field"}, {<<Png>>, <<Pdf>>, <<Csv>>, <<Txt>>, <<Md>>}, {"k1"})
  \/ ClickRemove
  \/ ClickRunFullAnalysis
  \/ ClickTab({"inputs"})
  \/ FileLoads
  \/ FileFails
  \/ BackendReturns({"Porphyry Cu, 80%"})

SpecEncode == Init /\ [][NextEncode]_vars

\* What the user types in the search box: nothing, parts of labels in other
\* case, a string no label has, and an Arabic letter.
SearchQueries ==
  {<<>>, <<"O", "r", "E">>, <<"a", "i">>, <<"D", "A", "T", "A">>, <<"h", "e", "a", "t">>,
   <<".", " ">>, <<"z", "z">>, <<"U+0688">>}

\* A session in which the user types in the search box, switches the
\* language, uses the sidebar buttons that are shown and types in the field
\* card.
NextSearch ==
  \/ TypeSearch(SearchQueries)
  \/ ToggleLanguage
  \/ ClickTab(Tab)
  \/ ChangeText({"field"}, Texts)

SpecSearch == Init /\ [][NextSearch]_vars

\* A session in which the user runs the full analysis when no call is
\* pending and clicks sidebar modules and 'Generate Python Script' at any
\* time, also while calls are pending; the store is left alone and never
\* cleared.
NextRace ==
  \/ calls = <<>> /\ ClickRunFullAnalysis
  \/ ClickSidebarModule(ModuleKeys)
  \/ ClickGeneratePythonScript
  \/ ClickTab(Tab)
  \/ ToggleLanguage
  \/ BackendReturns(ResponseTexts)
  \/ BackendFails

SpecRace == Init /\ [][NextRace]_vars

\* ------------------------------------------------------------- properties

\* The arguments the controls pass to runAnalysis.
SubmitArgs ==
  {Undefined, "Generate Python Code"}
    \cup {LABELS[l][key] : l \in Language, key \in ModuleKeys}

ErrorMessages == {ErrorMessage(l) : l \in Language}

\* The analysis state the results view shows: the spinner while loading,
\* else the placeholder for an empty result, else the result, which is a
\* failure when it is the message of the catch block.
AnalysisState ==
  IF loading THEN "Submitting"
  ELSE IF result = "" THEN "Idle"
  ELSE IF result \in ErrorMessages THEN "Failure"
  ELSE "Success"

\* The attachments of a map, category by category in the fixed order.
CategoryWise(atts) ==
  atts.field \o atts.handSpecimen \o atts.microscopy \o atts.geochemistry
    \o atts.remoteSensing

\* C1: a runAnalysis invoked while loading is true changes nothing, and so at
\* most one backend request is in flight in every reachable state.
C1_SubmitWhileSubmittingRejected ==
  /\ [][\A m \in SubmitArgs : (loading /\ runAnalysis(m)) => UNCHANGED vars]_vars
  /\ [](Cardinality(InFlight) <= 1)

\* C2: the parts of a request after its first are the encodings of the
\* attachments the call was made with, category by category in the order
\* field, handSpecimen, microscopy, geochemistry, remoteSensing and in list
\* order within a category; while files are still being read the parts
\* pushed so far are a prefix of that.
C2_PartsFollowCategoryOrder ==
  \A i \in 1..Len(calls) :
    LET expected == CategoryWise(calls[i].attachments)
        parts == calls[i].parts
    IN /\ Len(parts) <= 1 + Len(expected)
       /\ i \in InFlight => Len(parts) = 1 + Len(expected)
       /\ \A k \in 1..(Len(parts) - 1) :
            parts[k + 1] = fileToGenerativePart(expected[k].file)

\* A request in flight with a PDF of one category and a CSV of another.
C2_Witness ==
  \E i \in InFlight :
    LET atts == calls[i].attachments
    IN /\ Len(atts.field) = 1
       /\ Len(atts.geochemistry) = 1
       /\ atts.field[1].file # atts.geochemistry[1].file
       /\ Len(calls[i].parts) = 3

\* The prompt and the parts of call i are those derived from the values its
\* closure holds.
BuiltFromClosure(i) ==
  LET c == calls[i]
      all == allAttachments(c.attachments)
  IN /\ c.parts[1] =
          [text |-> mainPromptText(c.specificModule, c.activeTab, c.language, c.inputs)]
     /\ Len(c.parts) <= 1 + Len(all)
     /\ i \in InFlight => Len(c.parts) = 1 + Len(all)
     /\ \A k \in 1..(Len(c.parts) - 1) : c.parts[k + 1] = fileToGenerativePart(all[k].file)

\* C3: the closure of a call holds the texts and attachments stored when
\* runAnalysis was invoked, and whatever is typed, added, removed or cleared
\* afterwards, the prompt and the parts of the call are those derived from
\* the closure.
C3_RequestBuiltFromSnapshot ==
  /\ [](\A i \in 1..Len(calls) : BuiltFromClosure(i))
  /\ [][\A m \in SubmitArgs :
          (apiKey /\ runAnalysis(m)) =>
             LET c == calls'[Len(calls')]
             IN c.inputs = inputs /\ c.attachments = attachments]_vars
  /\ [][(inputs' # inputs \/ attachments' # attachments) => calls' = calls]_vars

\* A request in flight, built from a file, after the text and the
\* attachments of the store were changed.
C3_Witness ==
  \E i \in InFlight :
    /\ Len(calls[i].parts) >= 2
    /\ calls[i].inputs # inputs
    /\ calls[i].attachments # attachments

\* C4: every object URL created for a preview and still registered belongs
\* to an attachment of the AttachmentsMap (a URL whose attachment was
\* removed or cleared has been released).
C4_NoPreviewHandleOutlivesItsAttachment ==
  objectUrls \subseteq
    {allAttachments(attachments)[k].previewUrl : k \in 1..TotalAttachments}

\* The prompt the mode of call c selects.
ModeTemplate(c) ==
  IF c.specificModule = Undefined THEN FullPrompt(c.language, c.inputs)
  ELSE IF c.specificModule = "Generate Python Code" THEN HeatmapPrompt(c.inputs)
  ELSE ModulePrompt(c.specificModule, c.language, c.inputs)

\* C5: the first part of every call is the template of its mode: the
\* heat-map script instruction for the 'Generate Python Script' control, the
\* module instruction for a sidebar module, the full-analysis instruction
\* otherwise.
C5_TemplateSelectedByMode ==
  \A i \in 1..Len(calls) : calls[i].parts[1] = [text |-> ModeTemplate(calls[i])]

\* C6 as claimed: a returned non-empty text becomes the result; a rejected
\* call or an empty or missing text leaves the generic error message of the
\* active language.
C6_EmptyTextIsLocalizedFailure ==
  [][\A i \in 1..Len(calls) :
       /\ \A t \in ResponseTexts :
            GenerateReturn(i, t) =>
              (~loading' /\ result' = IF Truthy(t) THEN t ELSE ErrorMessage(language))
       /\ GenerateFail(i) => (~loading' /\ result' = ErrorMessage(language))]_vars

\* C6 as amended: a returned non-empty text becomes the result; an empty or
\* missing text leaves the fixed text "No analysis generated."; a rejected
\* call leaves the generic error message in the language that was active
\* when runAnalysis was invoked.
C6_BackendOutcome ==
  [][\A i \in 1..Len(calls) :
       /\ \A t \in ResponseTexts :
            GenerateReturn(i, t) =>
              (~loading' /\ result' = IF Truthy(t) THEN t ELSE "No analysis generated.")
       /\ GenerateFail(i) =>
            (~loading' /\ result' = ErrorMessage(calls[i].language))]_vars

\* The fallback text is shown while the Urdu interface is active.
C6_Witness == ~loading /\ result = "No analysis generated." /\ language = "ur"

\* C7: a failed read ends its call in Failure, the call never reaches the
\* backend (only complete part lists are in flight), and neither the start
\* of a call, nor a read, nor the failure changes the stored texts and
\* attachments.
C7_ReadFailureAbortsSubmission ==
  /\ [][\A i \in 1..Len(calls) :
          ReadFail(i) =>
            /\ AnalysisState' = "Failure"
            /\ Len(calls') = Len(calls) - 1
            /\ Cardinality(InFlight') = Cardinality(InFlight)
            /\ inputs' = inputs /\ attachments' = attachments]_vars
  /\ [][\A i \in 1..Len(calls) :
          ReadDone(i) => (inputs' = inputs /\ attachments' = attachments)]_vars
  /\ [][\A m \in SubmitArgs :
          runAnalysis(m) => (inputs' = inputs /\ attachments' = attachments)]_vars
  /\ [](\A i \in InFlight :
          Len(calls[i].parts) = 1 + Len(allAttachments(calls[i].attachments)))

\* A read has failed: the failure is shown, no call is left and the
\* attachments are still stored.
C7_Witness ==
  /\ consoleError = "ProgressEvent"
  /\ AnalysisState = "Failure"
  /\ calls = <<>>
  /\ TotalAttachments > 0

\* C8 as claimed: a runAnalysis without the API key, a failed read and a
\* rejected backend call each leave the analysis state Failure, and none
\* puts a request in flight.
C8_EveryErrorEndsInFailure ==
  /\ [][\A m \in SubmitArgs :
          (~apiKey /\ runAnalysis(m)) =>
             (AnalysisState' = "Failure" /\ InFlight' = {})]_vars
  /\ [][\A i \in 1..Len(calls) :
          (ReadFail(i) \/ GenerateFail(i)) =>
             (AnalysisState' = "Failure"
                /\ Cardinality(InFlight') <= Cardinality(InFlight))]_vars

\* C8 as amended: a failed read and a rejected backend call each leave the
\* analysis state Failure; a runAnalysis without the API key shows the alert
\* and changes nothing else, so that without the key the state stays Idle
\* and no call exists; none of the three puts a request in flight.
C8_ErrorOutcomes ==
  /\ [][\A m \in SubmitArgs :
          (~apiKey /\ runAnalysis(m)) =>
             /\ alerted'
             /\ UNCHANGED <<apiKey, searchQuery, language, inputs, attachments, loading, result,
                            activeTab, objectUrls, consoleError, calls>>]_vars
  /\ [](~apiKey => (calls = <<>> /\ AnalysisState = "Idle"))
  /\ [][\A i \in 1..Len(calls) :
          (ReadFail(i) \/ GenerateFail(i)) =>
             (AnalysisState' = "Failure"
                /\ Cardinality(InFlight') <= Cardinality(InFlight))]_vars

\* The alert has been shown and the analysis state is still Idle.
C8_Witness == ~apiKey /\ alerted /\ AnalysisState = "Idle" /\ calls = <<>>

\* C9: the message a failed read leaves in the result is not the generic
\* message of a backend failure.
C9_ReadFailureMessageNamesFile ==
  [][\A i \in 1..Len(calls) : ReadFail(i) => result' \notin ErrorMessages]_vars

\* C10 as claimed: every runAnalysis makes the results tab the active one.
C10_EverySubmitShowsResults ==
  [][\A m \in SubmitArgs : runAnalysis(m) => activeTab' = "results"]_vars

\* C10 as amended: every runAnalysis made with the API key present makes the
\* results tab the active one and starts a call, from whichever tab it was
\* made; one made without the key leaves the active tab as it is.
C10_SubmitWithKeyShowsResults ==
  [][\A m \in SubmitArgs :
       runAnalysis(m) =>
         IF apiKey THEN activeTab' = "results" /\ loading' /\ Len(calls') = Len(calls) + 1
         ELSE activeTab' = activeTab]_vars

\* A call made from the heat-map tab is pending and the results tab is shown.
C10_Witness ==
  \E i \in 1..Len(calls) :
    calls[i].activeTab = "heatmap" /\ activeTab = "results" /\ loading

\* A step that writes a text, an attachment list or the search query: every
\* step of handleInputChange, handleAddAttachment, handleRemoveAttachment,
\* clearInputs or setSearchQuery that changes anything is one.
StoreStep == inputs' # inputs \/ attachments' # attachments \/ searchQuery' # searchQuery

\* The steps that end a call.
Completion ==
  \E i \in 1..Len(calls) :
    \/ ReadFail(i)
    \/ GenerateFail(i)
    \/ \E t \in ResponseTexts : GenerateReturn(i, t)

\* C11 as claimed: the analysis state starts Idle; it changes only along
\* Idle -> Submitting -> {Success | Failure} -> Submitting; and typing a
\* text, adding and removing an attachment, clearing the store and typing in
\* the search box leave the loading flag and the held result as they are.
C11_StoreNeverTouchesAnalysisState ==
  /\ AnalysisState = "Idle"
  /\ [][AnalysisState' # AnalysisState =>
          <<AnalysisState, AnalysisState'>> \in
             {<<"Idle", "Submitting">>,
              <<"Submitting", "Success">>, <<"Submitting", "Failure">>,
              <<"Success", "Submitting">>, <<"Failure", "Submitting">>}]_vars
  /\ [][StoreStep => UNCHANGED <<loading, result>>]_vars

\* C11 as amended: the analysis state starts Idle; the loading flag and the
\* held result change only when runAnalysis is invoked with the API key
\* (the state becomes Submitting), when a call ends (the state becomes
\* Success or Failure) and when the store is cleared (the loading flag stays
\* and the held result is emptied, so that Success and Failure become Idle);
\* typing a text, adding and removing an attachment and typing in the search
\* box leave both as they are.
C11_AnalysisStateFrame ==
  /\ AnalysisState = "Idle"
  /\ [][\/ UNCHANGED <<loading, result>>
        \/ (\E m \in SubmitArgs : apiKey /\ runAnalysis(m)) /\ AnalysisState' = "Submitting"
        \/ Completion /\ AnalysisState' \in {"Success", "Failure"}
        \/ clearInputs /\ loading' = loading /\ result' = ""
                       /\ AnalysisState \in {"Success", "Failure"}
                       /\ AnalysisState' = "Idle"]_vars
  /\ [][(StoreStep /\ ~clearInputs) => UNCHANGED <<loading, result>>]_vars
  /\ [][clearInputs => (loading' = loading /\ result' = "")]_vars

\* The store was cleared after a call had failed: the failure is no longer
\* held and the state is Idle again.
C11_Witness == consoleError = "ApiError" /\ AnalysisState = "Idle" /\ calls = <<>>

\* C12: when the pending reads and backend calls eventually return or fail,
\* a state that shows Submitting is always followed by one that shows
\* Success or Failure; when runAnalysis is not invoked for ever again, all
\* calls end and the state stays out of Submitting; and no state shows
\* Submitting when no call is pending.
C12_SubmissionEventuallyEnds ==
  /\ loading ~> (~loading /\ AnalysisState \in {"Success", "Failure"})
  /\ ([]<><<\E m \in SubmitArgs : runAnalysis(m)>>_vars) \/ <>[](calls = <<>> /\ ~loading)
  /\ [](calls = <<>> => ~loading)

\* A call that had a file to read has ended after a read had failed before:
\* Success is shown and no call is pending.
C12_Witness ==
  /\ calls = <<>>
  /\ AnalysisState = "Success"
  /\ consoleError = "ProgressEvent"
  /\ TotalAttachments > 0

\* C13: after handleInputChange(c, v) the text of c is exactly v, white
\* space included and whatever was stored before, and the texts of the other
\* four categories and all attachment lists are as they were.
C13_SetTextLastWriteWins ==
  [][\A c \in Category, v \in PaddedTexts :
       handleInputChange(c, v) =>
         /\ inputs'[c] = v
         /\ \A d \in Category \ {c} : inputs'[d] = inputs[d]
         /\ attachments' = attachments]_vars

\* A padded text is stored in one card over an earlier text, another card
\* holds a text of its own and files are attached.
C13_Witness ==
  /\ inputs.field = " quartz \n"
  /\ inputs.remoteSensing = "quartz veining"
  /\ TotalAttachments > 0

\* The ids of a list, in order.
IdsOf(list) == [k \in 1..Len(list) |-> list[k].id]

Distinct(seq) == \A j, k \in 1..Len(seq) : seq[j] = seq[k] => j = k

\* C14: handleRemoveAttachment(c, id) leaves the lists of the other
\* categories as they are; it leaves the list of c as it is when no
\* attachment of c has the id; and when the ids of c are a1..an and id is ak,
\* it leaves the other n-1 attachments in their order, ak absent.
C14_RemoveKeepsOthersInOrder ==
  [][\A c \in Category, id \in IdPool :
       handleRemoveAttachment(c, id) =>
         LET old == attachments[c]
             new == attachments'[c]
             at == {k \in 1..Len(old) : old[k].id = id}
         IN /\ \A d \in Category \ {c} : attachments'[d] = attachments[d]
            /\ at = {} => new = old
            /\ (Distinct(IdsOf(old)) /\ at # {}) =>
                 /\ Len(new) = Len(old) - 1
                 /\ \A k \in 1..Len(new) : new[k].id # id
                 /\ \A k \in at : new = RemoveAt(old, k)]_vars

\* Exactly one of the attachments of the field card was removed: those left
\* have different ids, the first and the last are different files, and the
\* geochemistry card still holds its attachment.
C14_Witness ==
  /\ Len(attachments.field) = MaxListLen - 1
  /\ Distinct(IdsOf(attachments.field))
  /\ attachments.field[1].file # attachments.field[MaxListLen - 1].file
  /\ Len(attachments.geochemistry) = 1

\* C15: no two attachments of the AttachmentsMap, of one category or of
\* two, have the same id.
C15_IdsGloballyUnique == Distinct(IdsOf(allAttachments(attachments)))

\* C16: after clearInputs the text of each of the five categories is the
\* empty string and the attachment list of each is empty, and a runAnalysis
\* invoked next builds a request of one part, the prompt with N/A for every
\* category, with no file to read.
C16_ClearEmptiesStore ==
  [][clearInputs =>
       /\ \A c \in Category : inputs'[c] = "" /\ attachments'[c] = <<>>
       /\ NewCall(Undefined)'.parts = <<[text |-> FullPrompt(language, INITIAL_INPUTS)]>>
       /\ NewCall(Undefined)'.pc = "generateContent"]_vars

\* The store is empty after two images had been attached.
C16_Witness ==
  /\ inputs = INITIAL_INPUTS
  /\ attachments = INITIAL_ATTACHMENTS
  /\ Cardinality(objectUrls) = 2

\* The key of LABELS for each category, in the fixed order.
LabelKey == <<"field", "handSpecimen", "microscopy", "geochem", "remote">>

\* C17: the request a full analysis hands to the backend starts with the
\* prompt, which opens with the full-analysis instruction and the header
\* and then has, for the five categories in the fixed order, a line of the
\* label, ": ", the text stored when runAnalysis was invoked, or N/A when
\* that text is empty, and a line break; and the request has one part more
\* than there were attachments stored.
C17_FullPromptListsFiveCategories ==
  /\ [](\A i \in InFlight :
          calls[i].specificModule = Undefined =>
            LET c == calls[i]
                prompt == c.parts[1].text
            IN /\ Len(prompt) = 2 + 4 * Len(CategoryOrder)
               /\ prompt[1] =
                    "Perform a full Economic Geology Analysis based on the provided multi-scale data.\n"
               /\ prompt[2] = "\n--- INPUT DATA ---\n"
               /\ \A k \in 1..Len(CategoryOrder) :
                    /\ prompt[4 * k - 1] = LABELS[c.language][LabelKey[k]]
                    /\ prompt[4 * k] = ": "
                    /\ prompt[4 * k + 1] =
                         (IF c.inputs[CategoryOrder[k]] = "" THEN "N/A"
                          ELSE c.inputs[CategoryOrder[k]])
                    /\ prompt[4 * k + 2] = "\n"
               /\ Len(c.parts) =
                    1 + Len(c.attachments.field) + Len(c.attachments.handSpecimen)
                      + Len(c.attachments.microscopy) + Len(c.attachments.geochemistry)
                      + Len(c.attachments.remoteSensing))
  /\ [][(apiKey /\ runAnalysis(Undefined)) =>
          (calls'[Len(calls')].inputs = inputs
             /\ calls'[Len(calls')].attachments = attachments)]_vars

\* A full analysis is in flight with a text in the field card, none in the
\* microscopy card and two attachments: the request has three parts.
C17_Witness ==
  \E i \in InFlight :
    /\ calls[i].specificModule = Undefined
    /\ calls[i].inputs.field = "quartz veining"
    /\ calls[i].inputs.microscopy = ""
    /\ calls[i].language = "ur"
    /\ Len(calls[i].parts) = 3

\* A file whose mime type begins with "text/" or whose name ends in .csv,
\* .json, .md or .txt.
TextLike(file) ==
  TypeStartsWith(file, "text") \/ \E ext \in {"csv", "json", "md", "txt"} : NameEndsWith(file, ext)

\* C18: each part read from a file is a text part, the marker with the file
\* name followed by the decoded text, when the file is text-like (.txt
\* included, whatever its mime type), and otherwise an inline-data part with
\* the base64 data and the mime type of the file.
C18_TextPartForTextLikeFiles ==
  \A i \in 1..Len(calls) :
    \A k \in 1..(Len(calls[i].parts) - 1) :
      LET file == allAttachments(calls[i].attachments)[k].file
          part == calls[i].parts[k + 1]
      IN IF TextLike(file)
         THEN part = [text |-> <<"\n[File Attachment: ">> \o file.name
                                 \o <<"]\n", file.content, "\n">>]
         ELSE part = [inlineData |-> [data |-> <<"base64", file.content>>,
                                      mimeType |-> file.type]]

\* Two characters that are equal or the capital and the small form of one
\* letter.
SameLetter(a, b) ==
  a = b \/ \E n \in 1..Len(UpperCase) : {a, b} = {UpperCase[n], LowerCase[n]}

\* The label contains q at some position, letters compared without case.
ContainsIgnoringCase(label, q) ==
  \E start \in 0..(Len(label) - Len(q)) :
    \A k \in 1..Len(q) : SameLetter(label[start + k], q[k])

\* The items of a list whose label contains the search query, in the order
\* of the list.
Matching(list) ==
  LET M == {k \in 1..Len(list) : ContainsIgnoringCase(Chars(list[k].label), searchQuery)}
  IN [j \in 1..Cardinality(M) |->
        list[CHOOSE k \in M : Cardinality({m \in M : m < k}) = j - 1]]

\* C19: the data-input entry is shown exactly when its label contains the
\* query ignoring case; the modules and the tools shown are the entries of
\* the six modules and of the two tools whose label contains the query
\* ignoring case, in their original order; with the empty query every entry
\* is shown; and there is no match exactly when the three groups are empty.
C19_FilterIsCaseInsensitiveSubsequence ==
  /\ showDataInput <=> ContainsIgnoringCase(Chars(dataInputLabel), searchQuery)
  /\ Len(moduleList) = 6 /\ filteredModules = Matching(moduleList)
  /\ Len(toolList) = 2 /\ filteredTools = Matching(toolList)
  /\ searchQuery = <<>> =>
       (showDataInput /\ filteredModules = moduleList /\ filteredTools = toolList)
  /\ ~hasAnyMatch <=> (~showDataInput /\ filteredModules = <<>> /\ filteredTools = <<>>)

\* With the Urdu labels the query "OrE" shows the module Ore Petrography and
\* nothing else.
C19_Witness ==
  /\ language = "ur"
  /\ searchQuery = <<"O", "r", "E">>
  /\ filteredModules = <<[label |-> "3. Ore Petrography"]>>
  /\ ~showDataInput
  /\ filteredTools = <<>>

\* C20: while a call is pending (reading a file or waiting for the backend)
\* the loading flag is true, and the end of one call does not set it to
\* false while another call is pending.
C20_PendingImpliesLoading ==
  /\ [](calls # <<>> => loading)
  /\ [][(Completion /\ calls' # <<>>) => loading']_vars

\* C21: whichever pending call ends, the first started or a later one, and
\* whether or not others are pending or have ended before, the result held
\* afterwards is the outcome of that call: the text returned (or the
\* fallback text), or the error message in the language of the call; between
\* the ends of calls the result changes only when runAnalysis empties it. So
\* when all calls have ended the result is that of the call that ended last.
C21_LastCompletionWins ==
  /\ [][\A i \in 1..Len(calls) :
          /\ \A t \in ResponseTexts : GenerateReturn(i, t) => result' = ResponseText(t)
          /\ GenerateFail(i) => result' = ErrorMessage(calls[i].language)]_vars
  /\ [][result' # result =>
          \/ Completion
          \/ (\E m \in SubmitArgs : runAnalysis(m)) /\ result' = ""]_vars

\* The full analysis, started when no call was pending, is still pending
\* while the result of a module started after it is held: the end of the
\* full analysis will replace it.
C21_Witness ==
  /\ Len(calls) = 1
  /\ calls[1].specificModule = Undefined
  /\ ~loading
  /\ result = "Porphyry Cu, 80%"

====
